---- MODULE Spec2Model ----
(***************************************************************************)
(* MMM-Multi-Wind: the MagicMirror module (MMM-Multi-Wind.js, version      *)
(* 2.1.0, lines 28-326) and its node helper (node_helper.js).              *)
(*                                                                         *)
(* The module polls the helper with GET_WIND_DATA socket notifications     *)
(* (one at startup, one per setInterval tick, one per retry setTimeout);   *)
(* the helper performs one https.get per notification and answers with     *)
(* WIND_DATA (an observation) or WIND_DATA_ERROR.                          *)
(*                                                                         *)
(* JavaScript values are tagged records: [t |-> "number", v |-> n], ...    *)
(* Numbers are integers: wind speeds are in tenths of a m/s, directions   *)
(* in tenths of a degree, coordinates in 10^-7 degrees.                    *)
(***************************************************************************)
EXTENDS Integers, Sequences, FiniteSets, TLC

\* ------------------------------------------------------------------ bounds

\* maxRetries of the configuration ranges over 0..MaxRetriesBound.
MaxRetriesBound == 2

\* The presentation functions are applied to the directions of
\* -MaxDirection..MaxDirection tenths of a degree.
MaxDirection == 3600

\* The presentation functions are applied to the speeds of 0..MaxSpeed tenths
\* of a m/s.
MaxSpeed == 400

\* The parameter sequences of the SMHI documents parsed on their own have
\* MaxParameters parameters at most.
MaxParameters == 3

\* At most MaxLoad acquisitions are under way at once (pending retry timers,
\* GET_WIND_DATA notifications, open requests and undelivered outcomes).
MaxLoad == 3

\* ------------------------------------------------------- JavaScript values

Undefined == [t |-> "undefined"]

Null == [t |-> "null"]

Num(n) == [t |-> "number", v |-> n]

Str(s) == [t |-> "string", v |-> s]

Obj(fields) == [t |-> "object", f |-> fields]

Arr(elems) == [t |-> "array", e |-> elems]

\* typeof x === 'number'
IsNumber(x) == x.t = "number"

\* ToBoolean(x), as used by `!x`
Truthy(x) ==
    CASE x.t = "undefined" -> FALSE
      [] x.t = "null" -> FALSE
      [] x.t = "number" -> x.v # 0
      [] x.t = "string" -> x.v # ""
      [] OTHER -> TRUE

\* x?.k : undefined when x is null or undefined or has no property k
Prop(x, k) ==
    IF x.t = "object" /\ k \in DOMAIN x.f THEN x.f[k] ELSE Undefined

\* x?.[0]
First(x) ==
    IF x.t = "array" /\ Len(x.e) >= 1 THEN x.e[1] ELSE Undefined

\* The outcome of a function that may throw.
Return(v) == [ok |-> TRUE, value |-> v]

Throw == [ok |-> FALSE]

\* a === b for the tagged values
StrictEq(a, b) == a.t = b.t /\ a = b

\* ------------------------------------------------- node_helper.js: parsing

\* The response bodies the providers' servers return in this model. The
\* empty one is not JSON. Each of the others is the text of the document that
\* JSONParse gives for it.
BadBodies == {""}

YrBodies == {"yr_ok", "yr_no_speed", "yr_no_series"}

SmhiBodies == {"smhi_ok", "smhi_no_wd"}

Bodies(provider) ==
    BadBodies \cup (IF provider = "yr" THEN YrBodies ELSE SmhiBodies)

YrDocument(details) ==
    Obj([properties |->
        Obj([timeseries |->
            Arr(<< Obj([time |-> Str("2024-01-05T12:00:00Z"),
                        data |-> Obj([instant |-> Obj([details |-> details])])]) >>)])])

SmhiParameter(name, values) ==
    Obj([name |-> Str(name), unit |-> Str("x"), values |-> Arr(values)])

SmhiDocument(parameters) ==
    Obj([timeSeries |->
        Arr(<< Obj([validTime |-> Str("2024-01-05T12:00:00Z"),
                    parameters |-> Arr(parameters)]) >>)])

\* JSON.parse(rawData): throws on text that is not JSON.
JSONParse(rawData) ==
    CASE rawData = "yr_ok" ->
            Return(YrDocument(Obj([air_temperature |-> Num(21),
                                   wind_from_direction |-> Num(180),
                                   wind_speed |-> Num(75)])))
      [] rawData = "yr_no_speed" ->
            Return(YrDocument(Obj([air_temperature |-> Num(21),
                                   wind_from_direction |-> Num(180)])))
      [] rawData = "yr_no_series" ->
            Return(Obj([properties |-> Obj([timeseries |-> Arr(<< >>)])]))
      [] rawData = "smhi_ok" ->
            Return(SmhiDocument(<< SmhiParameter("t", << Num(21) >>),
                                   SmhiParameter("wd", << Num(180), Num(190) >>),
                                   SmhiParameter("ws", << Num(75), Num(80) >>) >>))
      [] rawData = "smhi_no_wd" ->
            Return(SmhiDocument(<< SmhiParameter("ws", << Num(75) >>) >>))
      [] rawData = "smhi_text_ws" ->
            Return(SmhiDocument(<< SmhiParameter("wd", << Num(180) >>),
                                   SmhiParameter("ws", << Str("7.5") >>) >>))
      [] OTHER -> Throw

\* parseYrData(data)
parseYrData(data) ==
    LET step1 == Prop(data, "properties")
        step2 == Prop(step1, "timeseries")
        step3 == First(step2)
        step4 == Prop(step3, "data")
        step5 == Prop(step4, "instant")
        details == Prop(step5, "details")
    IN  IF ~Truthy(details)
        THEN Throw
        ELSE Return(Obj([windSpeed |-> Prop(details, "wind_speed"),
                         windDirection |-> Prop(details, "wind_from_direction")]))

\* parameters.find(p => p.name === name), undefined when there is none
FindParameter(parameters, name) ==
    LET hits == {i \in 1..Len(parameters.e) :
                    StrictEq(Prop(parameters.e[i], "name"), Str(name))}
    IN  IF hits = {} THEN Undefined
        ELSE parameters.e[CHOOSE i \in hits : \A j \in hits : i <= j]

\* parseSmhiData without the test of the types of the two values
parseSmhiData_Unchecked(data) ==
    LET currentData == First(Prop(data, "timeSeries"))
        parameters == Prop(currentData, "parameters")
    IN  IF ~Truthy(parameters) THEN Throw
        ELSE IF parameters.t # "array" THEN Throw
        ELSE Return(Obj([windSpeed |->
                            First(Prop(FindParameter(parameters, "ws"), "values")),
                         windDirection |->
                            First(Prop(FindParameter(parameters, "wd"), "values"))]))

\* parseSmhiData taking the first two parameters, whatever their names
parseSmhiData_ByPosition(data) ==
    LET currentData == First(Prop(data, "timeSeries"))
        parameters == Prop(currentData, "parameters")
    IN  IF ~Truthy(parameters) THEN Throw
        ELSE IF parameters.t # "array" THEN Throw
        ELSE LET windSpeed == First(Prop(First(parameters), "values"))
                 windDirection ==
                    IF Len(parameters.e) >= 2
                    THEN First(Prop(parameters.e[2], "values"))
                    ELSE Undefined
             IN  IF ~IsNumber(windSpeed) \/ ~IsNumber(windDirection)
                 THEN Throw
                 ELSE Return(Obj([windSpeed |-> windSpeed,
                                  windDirection |-> windDirection]))

\* parseSmhiData(data)
parseSmhiData(data) ==
    LET currentData == First(Prop(data, "timeSeries"))
        parameters == Prop(currentData, "parameters")
    IN  IF ~Truthy(parameters) THEN Throw
        ELSE IF parameters.t # "array" THEN Throw   \* .find is not a function
        ELSE LET windSpeed == First(Prop(FindParameter(parameters, "ws"), "values"))
                 windDirection == First(Prop(FindParameter(parameters, "wd"), "values"))
             IN  IF ~IsNumber(windSpeed) \/ ~IsNumber(windDirection)
                 THEN Throw
                 ELSE Return(Obj([windSpeed |-> windSpeed,
                                  windDirection |-> windDirection]))

\* parseProviderData(data, provider): the catch block rethrows.
parseProviderData(data, provider) ==
    IF provider = "yr" THEN parseYrData(data) ELSE parseSmhiData(data)

\* ---------------------------------------------------- node_helper.js: URLs

\* Coordinates are numbers of 10^-7 degrees: Num(577089000) is 57.7089.

\* The decimal digits of a natural number.
RECURSIVE Digits(_)
Digits(n) ==
    IF n < 10
    THEN SubSeq("0123456789", n + 1, n + 1)
    ELSE Digits(n \div 10) \o SubSeq("0123456789", (n % 10) + 1, (n % 10) + 1)

RECURSIVE Zeros(_)
Zeros(n) == IF n <= 0 THEN "" ELSE "0" \o Zeros(n - 1)

\* The digits after the point that formatCoordinate asks for.
FractionDigits == 6

\* Number.prototype.toFixed(FractionDigits): the sign, then the integer n
\* nearest to |x| * 10^FractionDigits (the larger of two) with the point
\* before its last FractionDigits digits, zeros added in front as needed.
\* The numbers here are decimals, so that |x| can lie halfway between two n.
toFixed(x) ==
    LET a == IF x.v < 0 THEN 0 - x.v ELSE x.v
        n == (a + 5) \div 10
        m == Zeros(FractionDigits + 1 - Len(Digits(n))) \o Digits(n)
        k == Len(m) - FractionDigits
    IN  (IF x.v < 0 THEN "-" ELSE "")
            \o SubSeq(m, 1, k) \o "." \o SubSeq(m, k + 1, Len(m))

\* The digits without the zeros at their end.
RECURSIVE StripZeros(_)
StripZeros(digits) ==
    IF digits # "" /\ SubSeq(digits, Len(digits), Len(digits)) = "0"
    THEN StripZeros(SubSeq(digits, 1, Len(digits) - 1))
    ELSE digits

\* ToString(x) of a number, as a template literal applies it: the shortest decimal, in
\* exponent notation below 10^-6.
NumberToString(x) ==
    LET a == IF x.v < 0 THEN 0 - x.v ELSE x.v
        sign == IF x.v < 0 THEN "-" ELSE ""
        fraction == StripZeros(Zeros(7 - Len(Digits(a % 10000000)))
                                  \o Digits(a % 10000000))
    IN  IF a = 0 THEN "0"
        ELSE IF a < 10 THEN sign \o Digits(a) \o "e-7"
        ELSE sign \o Digits(a \div 10000000)
                  \o (IF fraction = "" THEN "" ELSE "." \o fraction)

\* formatCoordinate without toFixed
formatCoordinate_Unpadded(coord) == NumberToString(coord)

\* formatCoordinate(coord). Its argument is a number here: getProviderUrl
\* passes the result of parseFloat.
formatCoordinate(coord) == toFixed(coord)

\* parseInt(config.altitude || 0), the altitude being absent or whole metres
ParseIntAltitude(altitude) == IF Truthy(altitude) THEN altitude.v ELSE 0

\* getProviderUrl(config). parseFloat of a number gives that number back:
\* it parses the string of it, which denotes it.
getProviderUrl(c) ==
    IF c.provider = "yr"
    THEN "https://api.met.no/weatherapi/locationforecast/2.0/complete?altitude="
            \o Digits(ParseIntAltitude(c.altitude))
            \o "&lat=" \o NumberToString(c.lat) \o "&lon=" \o NumberToString(c.lon)
    ELSE "https://opendata-download-metfcst.smhi.se/api/category/pmp3g/version/2/geotype/point/lon/"
            \o formatCoordinate(c.lon) \o "/lat/" \o formatCoordinate(c.lat)
            \o "/data.json"

\* this.headers, set by start()
headers ==
    [yr |-> ("User-Agent" :> "MagicMirror-Multi-Wind/1.0.0 github.com/christian-gillinger/MMM-Multi-Wind"
                @@ "Accept" :> "application/json"),
     smhi |-> ("Accept" :> "application/json"
                @@ "User-Agent" :> "MagicMirror-Multi-Wind/1.0.0")]

\* this.headers[provider]: undefined for a name that is no key
HeadersOf(provider) ==
    IF provider \in DOMAIN headers THEN headers[provider] ELSE Undefined

RequestTimeout == 10000

\* The first lines of getWindData(config): the arguments of https.get, and
\* the provider that the 'end' handler hands to parseProviderData. The
\* provider "" stands for any falsy one, a missing one included.
HttpsGetArguments(c) ==
    LET provider == IF c.provider = "" THEN "smhi" ELSE c.provider
        url == getProviderUrl(c)
        options == [headers |-> HeadersOf(provider), timeout |-> RequestTimeout]
    IN  [provider |-> provider, url |-> url, options |-> options]

\* ------------------------------------------------------------------- state

VARIABLES
    pc,           \* "init" before the module's start() has run, then "running"
    config,       \* this.config of the module: provider, maxRetries
    loaded,       \* this.loaded
    windData,     \* this.windData: Null or the payload of the last WIND_DATA
    lastUpdateTime, \* this.lastUpdateTime: Null or a Date
    retryCount,   \* this.retryCount
    intervals,    \* number of setInterval timers armed by scheduleUpdate
    retryTimers,  \* number of pending setTimeout retry timers
    toHelper,     \* socket notifications on their way to the helper
    req,          \* the helper's https requests, one slot each
    toModule,     \* socket notifications on their way to the module
    netUp,        \* environment: the providers answer every request well
    idleTick,     \* history: the interval timer's last firing requested nothing
    exhausted,    \* history: maxRetries failures in a row, no tick since
    retries,      \* history: the requests issued by retry timers since
                  \* start(), or -1 once a tick has fired or a success has
                  \* been handled
    survivor,     \* history: a success has been handled while a retry timer
                  \* was pending, and no retry timer has fired since
    rejected,     \* history: the step just taken was the helper's response
                  \* callback, for a status other than 200
    parsedRejected, \* history: JSON.parse has run on the body of a response
                  \* whose status was not 200
    call          \* a presentation or formatting function applied on its own:
                  \* its name, argument and result

vars == << pc, config, loaded, windData, lastUpdateTime, retryCount, intervals,
           retryTimers, toHelper, req, toModule, netUp,
           idleTick, exhausted, retries, survivor, rejected, parsedRejected,
           call >>

\* The history variables as a group.
hist == << idleTick, exhausted, retries, survivor >>

\* No function is being applied on its own.
NoCall == [fn |-> "none"]

Providers == {"smhi", "yr", "noaa"}

Slots == 1..MaxLoad

FreeSlot ==
    [st |-> "free", provider |-> "smhi", statusCode |-> 0, rawData |-> "", sent |-> 0]

\* A request in one of these states can still run a handler.
Open == {"waiting", "receiving", "aborted"}

OpenSlots == {i \in Slots : req[i].st \in Open}

\* Acquisitions under way, in any stage.
Load == retryTimers + Len(toHelper) + Cardinality(OpenSlots) + Len(toModule)

Init ==
    /\ pc = "init"
    /\ config \in [provider : Providers, maxRetries : 0..MaxRetriesBound]
    /\ loaded = FALSE
    /\ windData = Null
    /\ lastUpdateTime = Null
    /\ retryCount = 0
    /\ intervals = 0
    /\ retryTimers = 0
    /\ toHelper = << >>
    /\ req = [i \in Slots |-> FreeSlot]
    /\ toModule = << >>
    /\ netUp = FALSE
    /\ idleTick = FALSE
    /\ exhausted = FALSE
    /\ retries = 0
    /\ survivor = FALSE
    /\ rejected = FALSE
    /\ parsedRejected = FALSE
    /\ call = NoCall

\* -------------------------------------------------- MMM-Multi-Wind.js

\* validateConfig: an unknown provider becomes "smhi"
validateConfig(c) ==
    IF c.provider \notin {"smhi", "yr"}
    THEN [c EXCEPT !.provider = "smhi"]
    ELSE c

\* The payload of GET_WIND_DATA
Request(c) == [notification |-> "GET_WIND_DATA", payload |-> [provider |-> c.provider]]

\* getData: the queue of notifications to the helper after the call
getData(c, rc, queue) ==
    IF rc >= c.maxRetries
    THEN queue
    ELSE Append(queue, Request(c))

\* start(), with validateConfig() and scheduleUpdate(): the state is reset,
\* the first getData() runs at once and the interval timer is armed.
Start ==
    /\ pc = "init"
    /\ pc' = "running"
    /\ loaded' = FALSE
    /\ windData' = Null
    /\ retryCount' = 0
    /\ lastUpdateTime' = Null
    /\ config' = validateConfig(config)
    /\ toHelper' = getData(config', retryCount', toHelper)
    /\ intervals' = intervals + 1
    /\ rejected' = FALSE
    /\ UNCHANGED << parsedRejected, call, retryTimers, req, toModule, netUp, hist >>

\* The setInterval callback of scheduleUpdate: getData()
Tick ==
    /\ pc = "running"
    /\ intervals > 0
    /\ Load < MaxLoad \/ retryCount >= config.maxRetries
    /\ toHelper' = getData(config, retryCount, toHelper)
    /\ idleTick' = (toHelper' = toHelper)
    /\ exhausted' = FALSE
    /\ retries' = 0 - 1
    /\ rejected' = FALSE
    /\ UNCHANGED << parsedRejected, call, pc, config, loaded, windData, lastUpdateTime, retryCount,
                    intervals, retryTimers, req, toModule, netUp, survivor >>

\* RetryFire that clears the interval timer
RetryFire_ClearsInterval ==
    /\ retryTimers > 0
    /\ retryTimers' = retryTimers - 1
    /\ toHelper' = getData(config, retryCount, toHelper)
    /\ intervals' = 0
    /\ retries' = IF retries >= 0 /\ toHelper' # toHelper THEN retries + 1 ELSE retries
    /\ survivor' = FALSE
    /\ rejected' = FALSE
    /\ UNCHANGED << parsedRejected, call, pc, config, loaded, windData, lastUpdateTime, retryCount,
                    req, toModule, netUp, idleTick, exhausted >>

\* The setTimeout callback armed by a WIND_DATA_ERROR: getData()
RetryFire ==
    /\ retryTimers > 0
    /\ retryTimers' = retryTimers - 1
    /\ toHelper' = getData(config, retryCount, toHelper)
    /\ retries' = IF retries >= 0 /\ toHelper' # toHelper THEN retries + 1 ELSE retries
    /\ survivor' = FALSE
    /\ rejected' = FALSE
    /\ UNCHANGED << parsedRejected, call, pc, config, loaded, windData, lastUpdateTime, retryCount,
                    intervals, req, toModule, netUp, idleTick, exhausted >>

\* OnWindData without `this.retryCount = 0`
OnWindData_KeepsCount(payload) ==
    /\ loaded' = TRUE
    /\ windData' = payload
    /\ lastUpdateTime' = Str("Date")
    /\ UNCHANGED << retryCount, retryTimers >>

\* OnWindData that keeps an observation already stored
OnWindData_KeepsFirst(payload) ==
    /\ loaded' = TRUE
    /\ windData' = IF windData = Null THEN payload ELSE windData
    /\ lastUpdateTime' = Str("Date")
    /\ retryCount' = 0
    /\ UNCHANGED retryTimers

\* socketNotificationReceived, case "WIND_DATA"
OnWindData(payload) ==
    /\ loaded' = TRUE
    /\ windData' = payload
    /\ lastUpdateTime' = Str("Date")
    /\ retryCount' = 0
    /\ UNCHANGED retryTimers

\* OnWindDataError with the retry test `<=` for `<`
OnWindDataError_RetriesAtMax ==
    /\ loaded' = TRUE
    /\ windData' = Null
    /\ retryCount' = retryCount + 1
    /\ retryTimers' = IF retryCount' <= config.maxRetries
                      THEN retryTimers + 1
                      ELSE retryTimers
    /\ UNCHANGED lastUpdateTime

\* OnWindDataError without `this.windData = null`
OnWindDataError_KeepsData ==
    /\ loaded' = TRUE
    /\ retryCount' = retryCount + 1
    /\ retryTimers' = IF retryCount' < config.maxRetries
                      THEN retryTimers + 1
                      ELSE retryTimers
    /\ UNCHANGED << windData, lastUpdateTime >>

\* OnWindDataError without `this.loaded = true`
OnWindDataError_StaysLoading ==
    /\ windData' = Null
    /\ retryCount' = retryCount + 1
    /\ retryTimers' = IF retryCount' < config.maxRetries
                      THEN retryTimers + 1
                      ELSE retryTimers
    /\ UNCHANGED << loaded, lastUpdateTime >>

\* socketNotificationReceived, case "WIND_DATA_ERROR"
OnWindDataError ==
    /\ loaded' = TRUE
    /\ windData' = Null
    /\ retryCount' = retryCount + 1
    /\ retryTimers' = IF retryCount' < config.maxRetries
                      THEN retryTimers + 1
                      ELSE retryTimers
    /\ UNCHANGED lastUpdateTime

\* socketNotificationReceived(notification, payload) of the module
ModuleReceive ==
    /\ toModule # << >>
    /\ LET n == Head(toModule)
       IN  \/ n.notification = "WIND_DATA" /\ OnWindData(n.payload)
           \/ n.notification = "WIND_DATA_ERROR" /\ OnWindDataError
    /\ toModule' = Tail(toModule)
    /\ exhausted' = IF Head(toModule).notification = "WIND_DATA_ERROR"
                    THEN exhausted \/ retryCount' >= config.maxRetries
                    ELSE exhausted
    /\ retries' = IF Head(toModule).notification = "WIND_DATA" THEN 0 - 1 ELSE retries
    /\ survivor' = IF Head(toModule).notification = "WIND_DATA"
                   THEN survivor \/ retryTimers > 0
                   ELSE survivor
    /\ rejected' = FALSE
    /\ UNCHANGED << parsedRejected, call, pc, config, intervals, toHelper, req, netUp, idleTick >>

\* getDom: which of the three views is rendered
getDom ==
    IF ~loaded THEN "LOADING"
    ELSE IF ~Truthy(windData) THEN "ERROR"
    ELSE "WIND"

\* ------------------------------------- MMM-Multi-Wind.js: presentation

\* Number values: finite (v tenths: of a m/s for a speed, of a degree for a
\* direction), Infinity, or NaN.
Finite(v) == [k |-> "finite", v |-> v]

Infinity == [k |-> "infinity", v |-> 0]

NaN == [k |-> "nan", v |-> 0]

\* StringToNumber for the texts "d", "d.d" and "": any other text is NaN.
StringToNumber(text) ==
    LET n == Len(text)
        IsDigit(i) == \E d \in 1..10 : SubSeq(text, i, i) = SubSeq("0123456789", d, d)
        DigitAt(i) == CHOOSE d \in 0..9 :
                         SubSeq(text, i, i) = SubSeq("0123456789", d + 1, d + 1)
        RECURSIVE Value(_)
        Value(i) == IF i = 0 THEN 0 ELSE 10 * Value(i - 1) + DigitAt(i)
    IN  IF n = 0 THEN Finite(0)
        ELSE IF \A i \in 1..n : IsDigit(i) THEN Finite(10 * Value(n))
        ELSE IF /\ n >= 3
                /\ SubSeq(text, n - 1, n - 1) = "."
                /\ IsDigit(n)
                /\ \A i \in 1..(n - 2) : IsDigit(i)
             THEN Finite(10 * Value(n - 2) + DigitAt(n))
        ELSE NaN

\* ToNumber(x), which the relational operators apply to an operand that is
\* no number
ToNumber(x) ==
    CASE x.t = "number" -> Finite(x.v)
      [] x.t = "undefined" -> NaN
      [] x.t = "null" -> Finite(0)
      [] x.t = "string" -> StringToNumber(x.v)

\* a <= b for number values: false when either is NaN
Le(a, b) ==
    /\ a.k # "nan" /\ b.k # "nan"
    /\ \/ b.k = "infinity"
       \/ a.k = "finite" /\ b.k = "finite" /\ a.v <= b.v

\* a >= b
Ge(a, b) == Le(b, a)

\* a < b for number values: false when either is NaN
Lt(a, b) ==
    /\ a.k # "nan" /\ b.k # "nan"
    /\ \/ a.k = "finite" /\ b.k = "infinity"
       \/ a.k = "finite" /\ b.k = "finite" /\ a.v < b.v

\* a > b
Gt(a, b) == Lt(b, a)

\* this.translate(key): the term of the configured language for the key
translate(key) == [term |-> key]

\* getTextSea with `>` for `>=`
getTextSea_Above(speed) ==
    LET n == ToNumber(speed)
    IN  IF Gt(n, Finite(327)) THEN translate("HURRICANE")
        ELSE IF Gt(n, Finite(245)) THEN translate("STORM")
        ELSE IF Gt(n, Finite(139)) THEN translate("GALE")
        ELSE IF Gt(n, Finite(3)) THEN translate("BREEZE")
        ELSE translate("CALM")

\* getTextSea(speed)
getTextSea(speed) ==
    LET n == ToNumber(speed)
    IN  IF Ge(n, Finite(327)) THEN translate("HURRICANE")
        ELSE IF Ge(n, Finite(245)) THEN translate("STORM")
        ELSE IF Ge(n, Finite(139)) THEN translate("GALE")
        ELSE IF Ge(n, Finite(3)) THEN translate("BREEZE")
        ELSE translate("CALM")

beaufortScale ==
    << [max |-> Finite(2), force |-> 0], [max |-> Finite(15), force |-> 1],
       [max |-> Finite(33), force |-> 2], [max |-> Finite(54), force |-> 3],
       [max |-> Finite(79), force |-> 4], [max |-> Finite(107), force |-> 5],
       [max |-> Finite(138), force |-> 6], [max |-> Finite(171), force |-> 7],
       [max |-> Finite(207), force |-> 8], [max |-> Finite(244), force |-> 9],
       [max |-> Finite(284), force |-> 10], [max |-> Finite(326), force |-> 11],
       [max |-> Infinity, force |-> 12] >>

\* getBeaufortForce with `<` for `<=`
getBeaufortForce_Below(speed) ==
    LET hits == {i \in 1..Len(beaufortScale) :
                    Lt(ToNumber(speed), beaufortScale[i].max)}
    IN  IF hits = {} THEN Throw
        ELSE Return(Num(beaufortScale[CHOOSE i \in hits : \A j \in hits : i <= j].force))

\* getBeaufortForce(speed): beaufortScale.find(scale => speed <= scale.max).force,
\* a TypeError when find returns undefined
getBeaufortForce(speed) ==
    LET hits == {i \in 1..Len(beaufortScale) :
                    Le(ToNumber(speed), beaufortScale[i].max)}
    IN  IF hits = {} THEN Throw
        ELSE Return(Num(beaufortScale[CHOOSE i \in hits : \A j \in hits : i <= j].force))

\* getBeaufortIcon(speed)
getBeaufortIcon(speed) ==
    LET force == getBeaufortForce(speed)
    IN  IF force.ok THEN Return("wi-wind-beaufort-" \o Digits(force.value.v))
        ELSE Throw

\* getWindIcon that never uses the Beaufort icons
getWindIcon_Standard(c, speed) ==
    LET n == ToNumber(speed)
    IN  IF Le(n, Finite(2)) THEN Return("wi-cloud")
        ELSE IF Le(n, Finite(33)) THEN Return("wi-windy")
        ELSE IF Le(n, Finite(138)) THEN Return("wi-strong-wind")
        ELSE IF Le(n, Finite(244)) THEN Return("wi-gale-warning")
        ELSE IF Le(n, Finite(326)) THEN Return("wi-storm-warning")
        ELSE Return("wi-hurricane-warning")

\* getWindIcon(speed), c being this.config
getWindIcon(c, speed) ==
    LET n == ToNumber(speed)
    IN  IF c.displayType = "beaufort" THEN getBeaufortIcon(speed)
        ELSE IF Le(n, Finite(2)) THEN Return("wi-cloud")
        ELSE IF Le(n, Finite(33)) THEN Return("wi-windy")
        ELSE IF Le(n, Finite(138)) THEN Return("wi-strong-wind")
        ELSE IF Le(n, Finite(244)) THEN Return("wi-gale-warning")
        ELSE IF Le(n, Finite(326)) THEN Return("wi-storm-warning")
        ELSE Return("wi-hurricane-warning")

\* ((degrees % 360) + 360) % 360, where % takes the sign of the dividend
\* and NaN stays NaN
Normalize(n) ==
    IF n.k # "finite" THEN NaN
    ELSE LET rem == IF n.v < 0 THEN 0 - ((0 - n.v) % 3600) ELSE n.v % 3600
         IN  Finite((rem + 3600) % 3600)

\* getDirectionIcon(degrees)
getDirectionIcon(degrees) ==
    LET normalizedDegrees == Normalize(ToNumber(degrees))
    IN  IF StrictEq(degrees, Num(0)) THEN "wi-na"
        ELSE IF \/ Gt(normalizedDegrees, Finite(3375))
                \/ Le(normalizedDegrees, Finite(225)) THEN "wi-direction-down"
        ELSE IF Le(normalizedDegrees, Finite(675)) THEN "wi-direction-down-left"
        ELSE IF Le(normalizedDegrees, Finite(1125)) THEN "wi-direction-left"
        ELSE IF Le(normalizedDegrees, Finite(1575)) THEN "wi-direction-up-left"
        ELSE IF Le(normalizedDegrees, Finite(2025)) THEN "wi-direction-up"
        ELSE IF Le(normalizedDegrees, Finite(2475)) THEN "wi-direction-up-right"
        ELSE IF Le(normalizedDegrees, Finite(2925)) THEN "wi-direction-right"
        ELSE IF Le(normalizedDegrees, Finite(3375)) THEN "wi-direction-down-right"
        ELSE "wi-na"

directions ==
    << [min |-> Finite(3375), max |-> Finite(225), dir |-> "N"],
       [min |-> Finite(225), max |-> Finite(675), dir |-> "NE"],
       [min |-> Finite(675), max |-> Finite(1125), dir |-> "E"],
       [min |-> Finite(1125), max |-> Finite(1575), dir |-> "SE"],
       [min |-> Finite(1575), max |-> Finite(2025), dir |-> "S"],
       [min |-> Finite(2025), max |-> Finite(2475), dir |-> "SW"],
       [min |-> Finite(2475), max |-> Finite(2925), dir |-> "W"],
       [min |-> Finite(2925), max |-> Finite(3375), dir |-> "NW"] >>

\* A text that is not translated.
Text(text) == [text |-> text]

\* The character U+00B0 that follows the degrees.
DegreeSign == "deg"

\* degrees + DegreeSign: the string of the degrees, a number of tenths or
\* another value
DegreesToString(degrees) ==
    CASE degrees.t = "number" ->
            LET a == IF degrees.v < 0 THEN 0 - degrees.v ELSE degrees.v
            IN  (IF degrees.v < 0 THEN "-" ELSE "")
                    \o Digits(a \div 10)
                    \o (IF a % 10 = 0 THEN "" ELSE "." \o Digits(a % 10))
      [] degrees.t = "string" -> degrees.v
      [] degrees.t = "undefined" -> "undefined"
      [] degrees.t = "null" -> "null"

\* The compass label of getWindDirection
CompassLabel(degrees) ==
    LET normalizedDegrees == Normalize(ToNumber(degrees))
        hits == {i \in 1..Len(directions) :
                    LET dir == directions[i]
                    IN  \/ /\ Lt(dir.min, dir.max)
                           /\ Ge(normalizedDegrees, dir.min)
                           /\ Lt(normalizedDegrees, dir.max)
                        \/ /\ Gt(dir.min, dir.max)
                           /\ \/ Ge(normalizedDegrees, dir.min)
                              \/ Lt(normalizedDegrees, dir.max)}
    IN  IF hits = {} THEN translate("N")
        ELSE translate(directions[CHOOSE i \in hits : \A j \in hits : i <= j].dir)

\* getWindDirection without the test for 0
getWindDirection_NoSentinel(c, degrees) ==
    IF c.directionType = "compass" THEN CompassLabel(degrees)
    ELSE Text(DegreesToString(degrees) \o DegreeSign)

\* getWindDirection(degrees), c being this.config
getWindDirection(c, degrees) ==
    IF StrictEq(degrees, Num(0)) THEN Text("N/A")
    ELSE IF c.directionType = "compass" THEN CompassLabel(degrees)
    ELSE Text(DegreesToString(degrees) \o DegreeSign)

\* ------------------------------------------------------- node_helper.js

WindData(payload) == [notification |-> "WIND_DATA", payload |-> payload]

WindDataError == [notification |-> "WIND_DATA_ERROR", payload |-> Undefined]

\* this.sendSocketNotification(n) on behalf of request i, which then is in
\* state st; a request that has ended gives up its slot.
Send(i, n, st) ==
    /\ toModule' = Append(toModule, n)
    /\ req' = IF st = "closed"
              THEN [req EXCEPT ![i] = FreeSlot]
              ELSE [req EXCEPT ![i].st = st, ![i].sent = @ + 1]

\* The slot a new request takes: the first one that holds no open request.
NewSlot == CHOOSE i \in Slots \ OpenSlots : \A j \in Slots \ OpenSlots : i <= j

\* getWindData that drops a request while another one is open
getWindData_SingleFlight ==
    /\ toHelper # << >>
    /\ Head(toHelper).notification = "GET_WIND_DATA"
    /\ LET payload == Head(toHelper).payload
           provider == IF payload.provider = "" THEN "smhi" ELSE payload.provider
       IN  req' = IF OpenSlots # {}
                  THEN req
                  ELSE [req EXCEPT ![NewSlot] =
                          [st |-> "waiting", provider |-> provider, statusCode |-> 0,
                           rawData |-> "", sent |-> 0]]
    /\ toHelper' = Tail(toHelper)
    /\ rejected' = FALSE
    /\ UNCHANGED parsedRejected
    /\ UNCHANGED << call, pc, config, loaded, windData, lastUpdateTime, retryCount,
                    intervals, retryTimers, toModule, netUp, hist >>

\* socketNotificationReceived of the helper: GET_WIND_DATA calls getWindData,
\* which issues https.get and registers the handlers.
getWindData ==
    /\ toHelper # << >>
    /\ Head(toHelper).notification = "GET_WIND_DATA"
    /\ LET payload == Head(toHelper).payload
           provider == IF payload.provider = "" THEN "smhi" ELSE payload.provider
       IN  req' = [req EXCEPT ![NewSlot] =
                     [st |-> "waiting", provider |-> provider, statusCode |-> 0,
                      rawData |-> "", sent |-> 0]]
    /\ toHelper' = Tail(toHelper)
    /\ rejected' = FALSE
    /\ UNCHANGED parsedRejected
    /\ UNCHANGED << call, pc, config, loaded, windData, lastUpdateTime, retryCount,
                    intervals, retryTimers, toModule, netUp, hist >>

StatusCodes == {200, 404}

\* OnResponse without the notification on a status other than 200
OnResponse_SilentStatus(i, statusCode) ==
    /\ req[i].st = "waiting"
    /\ IF statusCode # 200
       THEN /\ ~netUp
            /\ req' = [req EXCEPT ![i] = FreeSlot]
            /\ UNCHANGED toModule
       ELSE /\ req' = [req EXCEPT ![i].st = "receiving",
                                    ![i].statusCode = statusCode,
                                    ![i].rawData = ""]
            /\ UNCHANGED toModule
    /\ rejected' = (statusCode # 200)
    /\ UNCHANGED parsedRejected
    /\ UNCHANGED << call, pc, config, loaded, windData, lastUpdateTime, retryCount,
                    intervals, retryTimers, toHelper, netUp, hist >>

\* OnResponse without the test of the status: the 'data' and 'end' handlers
\* are registered whatever it is.
OnResponse_NoStatusTest(i, statusCode) ==
    /\ req[i].st = "waiting"
    /\ statusCode # 200 => ~netUp
    /\ req' = [req EXCEPT ![i].st = "receiving",
                          ![i].statusCode = statusCode,
                          ![i].rawData = ""]
    /\ UNCHANGED toModule
    /\ rejected' = (statusCode # 200)
    /\ UNCHANGED parsedRejected
    /\ UNCHANGED << call, pc, config, loaded, windData, lastUpdateTime, retryCount,
                    intervals, retryTimers, toHelper, netUp, hist >>

\* The response callback of https.get: a status other than 200 fails the
\* request; on 200 the 'data' and 'end' handlers are registered.
OnResponse(i, statusCode) ==
    /\ req[i].st = "waiting"
    /\ IF statusCode # 200
       THEN /\ ~netUp
            /\ Send(i, WindDataError, "closed")
       ELSE /\ req' = [req EXCEPT ![i].st = "receiving",
                                    ![i].statusCode = statusCode,
                                    ![i].rawData = ""]
            /\ UNCHANGED toModule
    /\ rejected' = (statusCode # 200)
    /\ UNCHANGED parsedRejected
    /\ UNCHANGED << call, pc, config, loaded, windData, lastUpdateTime, retryCount,
                    intervals, retryTimers, toHelper, netUp, hist >>

\* The try block of the 'end' handler, JSON.parse then parseProviderData,
\* for every provider and text: the observation returned, or Throw.
TryParse ==
    [provider \in Providers |->
        [rawData \in Bodies(provider) |->
            LET jsonData == JSONParse(rawData)
            IN  IF jsonData.ok
                THEN parseProviderData(jsonData.value, provider)
                ELSE Throw]]

\* The bodies that make an acquisition succeed.
GoodBodies ==
    [provider \in Providers |->
        {b \in Bodies(provider) : TryParse[provider][b].ok}]

\* resp.on('data'): rawData += chunk. The body arrives as one chunk.
OnData(i, chunk) ==
    /\ req[i].st = "receiving"
    /\ req[i].rawData = ""
    /\ chunk # ""
    /\ netUp => chunk \in GoodBodies[req[i].provider]
    /\ req' = [req EXCEPT ![i].rawData = chunk]
    /\ rejected' = FALSE
    /\ UNCHANGED parsedRejected
    /\ UNCHANGED << call, pc, config, loaded, windData, lastUpdateTime, retryCount,
                    intervals, retryTimers, toHelper, toModule, netUp, hist >>

\* resp.on('end'): JSON.parse and parseProviderData in a try block; the catch
\* block sends the error.
OnEnd(i) ==
    /\ req[i].st = "receiving"
    /\ netUp => req[i].rawData # ""
    /\ LET parsed == TryParse[req[i].provider][req[i].rawData]
       IN  IF parsed.ok
           THEN Send(i, WindData(parsed.value), "closed")
           ELSE Send(i, WindDataError, "closed")
    /\ rejected' = FALSE
    /\ parsedRejected' = (parsedRejected \/ req[i].statusCode # 200)
    /\ UNCHANGED << call, pc, config, loaded, windData, lastUpdateTime, retryCount,
                    intervals, retryTimers, toHelper, netUp, hist >>

\* request.on('error'). Node emits 'error' for a transport failure before a
\* response, and also ("socket hang up") after request.abort() has destroyed
\* the socket of a request that has had no response.
OnError(i) ==
    /\ \/ req[i].st = "waiting" /\ ~netUp
       \/ req[i].st = "aborted"
    /\ Send(i, WindDataError, "closed")
    /\ rejected' = FALSE
    /\ UNCHANGED parsedRejected
    /\ UNCHANGED << call, pc, config, loaded, windData, lastUpdateTime, retryCount,
                    intervals, retryTimers, toHelper, netUp, hist >>

\* request.on('timeout'): request.abort(), then the error is sent. After a
\* response the abort ends the request; before one, Node goes on to emit
\* 'error'.
OnTimeout(i) ==
    /\ ~netUp
    /\ \/ req[i].st = "waiting" /\ Load < MaxLoad
                                /\ Send(i, WindDataError, "aborted")
       \/ req[i].st = "receiving" /\ Send(i, WindDataError, "closed")
    /\ rejected' = FALSE
    /\ UNCHANGED parsedRejected
    /\ UNCHANGED << call, pc, config, loaded, windData, lastUpdateTime, retryCount,
                    intervals, retryTimers, toHelper, netUp, hist >>

\* Environment: from here on the providers answer every request well.
NetRecover ==
    /\ ~netUp
    /\ netUp' = TRUE
    /\ rejected' = FALSE
    /\ UNCHANGED << parsedRejected, call, pc, config, loaded, windData, lastUpdateTime, retryCount,
                    intervals, retryTimers, toHelper, req, toModule, hist >>

\* What the network and Node's http client do to request i.
NetEvent(i) ==
    \/ \E statusCode \in StatusCodes : OnResponse(i, statusCode)
    \/ \E chunk \in Bodies(req[i].provider) : OnData(i, chunk)
    \/ OnEnd(i)
    \/ OnError(i)
    \/ OnTimeout(i)

Next ==
    \/ Start
    \/ Tick
    \/ RetryFire
    \/ ModuleReceive
    \/ getWindData
    \/ \E i \in Slots : NetEvent(i)
    \/ NetRecover

Spec == Init /\ [][Next]_vars

\* The network eventually responds, fails or times out: every open request
\* sees one of the events it has a handler for.
NetFairSpec ==
    /\ Spec
    /\ \A i \in Slots : WF_vars(NetEvent(i))

\* Besides, the timers fire and the sockets deliver.
FairSpec ==
    /\ NetFairSpec
    /\ WF_vars(Tick)
    /\ WF_vars(RetryFire)
    /\ WF_vars(ModuleReceive)
    /\ WF_vars(getWindData)

\* ------------------------------------------------- the helper on its own

\* A module instance calls sendSocketNotification("GET_WIND_DATA", config),
\* whenever it likes.
ClientSend ==
    /\ Load < MaxLoad
    /\ toHelper' = Append(toHelper, Request(validateConfig(config)))
    /\ rejected' = FALSE
    /\ UNCHANGED << parsedRejected, call, pc, config, loaded, windData, lastUpdateTime, retryCount,
                    intervals, retryTimers, req, toModule, netUp, hist >>

\* The socket delivers the helper's oldest notification.
ClientReceive ==
    /\ toModule # << >>
    /\ toModule' = Tail(toModule)
    /\ rejected' = FALSE
    /\ UNCHANGED << parsedRejected, call, pc, config, loaded, windData, lastUpdateTime, retryCount,
                    intervals, retryTimers, toHelper, req, netUp, hist >>

\* The helper is told the provider only.
HelperInit == Init /\ config.maxRetries = 0

HelperNext ==
    \/ ClientSend
    \/ ClientReceive
    \/ getWindData
    \/ \E i \in Slots : NetEvent(i)
    \/ NetRecover

\* The helper with any client, and a network that eventually responds, fails
\* or times out.
HelperSpec ==
    /\ HelperInit
    /\ [][HelperNext]_vars
    /\ \A i \in Slots : WF_vars(NetEvent(i))

\* ------------------------------------------- the functions on their own

\* The SMHI documents parseSmhiData is applied to: no time series, an empty
\* one, a first entry without parameters or with parameters that are no
\* array, and every sequence of up to MaxParameters parameters called "ws",
\* "wd" or "t" whose values are none, numbers or a text.
SmhiValues ==
    { << >>, << Num(75) >>, << Num(180), Num(190) >>, << Str("7.5") >> }

SmhiParameters ==
    {SmhiParameter(name, values) : name \in {"ws", "wd", "t"}, values \in SmhiValues}

SmhiParameterLists ==
    UNION {[1..n -> SmhiParameters] : n \in 0..MaxParameters}

SmhiDocuments ==
    {Obj([approvedTime |-> Str("2024-01-05T11:00:00Z")]),
     Obj([timeSeries |-> Arr(<< >>)]),
     Obj([timeSeries |-> Arr(<< Obj([validTime |-> Str("2024-01-05T12:00:00Z")]) >>)]),
     Obj([timeSeries |->
            Arr(<< Obj([validTime |-> Str("2024-01-05T12:00:00Z"),
                        parameters |-> Str("ws")]) >>)])}
        \cup {SmhiDocument(parameters) : parameters \in SmhiParameterLists}

\* The applications of a function to one argument, not yet carried out.
Calls(fn, args) == {[fn |-> fn, arg |-> arg, done |-> FALSE] : arg \in args}

\* call after the function has been applied.
Done(result) == [fn |-> call.fn, arg |-> call.arg, done |-> TRUE, result |-> result]

\* The rest of the program stays as it is before start().
Idle ==
    UNCHANGED << pc, config, loaded, windData, lastUpdateTime, retryCount,
                 intervals, retryTimers, toHelper, req, toModule, netUp,
                 idleTick, exhausted, retries, survivor, rejected, parsedRejected >>

\* Coordinates around the places where the rounding and the padding of
\* toFixed matter, of either sign.
Magnitudes ==
    {0, 1, 4, 5, 14, 15, 999994, 999995, 9999995, 110000000, 119746000,
     577089000, 899999999, 900000000, 1799999996, 1800000000}

Coordinates == Magnitudes \cup {0 - m : m \in Magnitudes}

\* validateConfig keeps the latitude within -90..90 and the longitude within
\* -180..180.
Latitudes == {v \in Coordinates : v >= -900000000 /\ v <= 900000000}

Longitudes == Coordinates

\* The payloads of GET_WIND_DATA that getProviderUrl is applied to.
Locations ==
    [provider : {"smhi"}, lat : {Num(v) : v \in Latitudes},
     lon : {Num(v) : v \in Longitudes}, altitude : {Num(0)}]
        \cup [provider : {"yr"}, lat : {Num(577089000)}, lon : {Num(-1), Num(119746000)},
              altitude : {Undefined, Num(25)}]

CallGetProviderUrl ==
    /\ call.fn = "getProviderUrl" /\ ~call.done
    /\ call' = Done(getProviderUrl(call.arg))
    /\ Idle

Speeds == {Num(v) : v \in 0..MaxSpeed}

CallGetBeaufortForce ==
    /\ call.fn = "getBeaufortForce" /\ ~call.done
    /\ call' = Done(getBeaufortForce(call.arg))
    /\ Idle

CallGetTextSea ==
    /\ call.fn = "getTextSea" /\ ~call.done
    /\ call' = Done(getTextSea(call.arg))
    /\ Idle

Directions == {Num(v) : v \in (0 - MaxDirection)..MaxDirection}

\* The speed and this.config.displayType
IconArguments ==
    [config : [displayType : {"textsea", "beaufort", "ms"}], speed : Speeds]

\* The direction and this.config.directionType
DirectionArguments ==
    [config : [directionType : {"compass", "degrees"}], degrees : Directions]

CallGetWindIcon ==
    /\ call.fn = "getWindIcon" /\ ~call.done
    /\ call' = Done(getWindIcon(call.arg.config, call.arg.speed))
    /\ Idle

CallGetDirectionIcon ==
    /\ call.fn = "getDirectionIcon" /\ ~call.done
    /\ call' = Done(getDirectionIcon(call.arg))
    /\ Idle

CallGetWindDirection ==
    /\ call.fn = "getWindDirection" /\ ~call.done
    /\ call' = Done(getWindDirection(call.arg.config, call.arg.degrees))
    /\ Idle

\* The payloads of GET_WIND_DATA that getWindData is applied to: any
\* provider, none ("") included.
Payloads ==
    [provider : Providers \cup {""}, lat : {Num(577089000)}, lon : {Num(119746000)},
     altitude : {Undefined, Num(25)}]

CallGetWindData ==
    /\ call.fn = "getWindData" /\ ~call.done
    /\ call' = Done(HttpsGetArguments(call.arg))
    /\ Idle

CallParseSmhiData ==
    /\ call.fn = "parseSmhiData" /\ ~call.done
    /\ call' = Done(parseSmhiData(call.arg))
    /\ Idle

PureInit ==
    /\ call \in Calls("parseSmhiData", SmhiDocuments)
                \cup Calls("getProviderUrl", Locations)
                \cup Calls("getBeaufortForce", Speeds)
                \cup Calls("getTextSea", Speeds)
                \cup Calls("getWindIcon", IconArguments)
                \cup Calls("getDirectionIcon", Directions)
                \cup Calls("getWindDirection", DirectionArguments)
                \cup Calls("getWindData", Payloads)
    /\ pc = "init"
    /\ config = [provider |-> "smhi", maxRetries |-> MaxRetriesBound]
    /\ loaded = FALSE
    /\ windData = Null
    /\ lastUpdateTime = Null
    /\ retryCount = 0
    /\ intervals = 0
    /\ retryTimers = 0
    /\ toHelper = << >>
    /\ req = [i \in Slots |-> FreeSlot]
    /\ toModule = << >>
    /\ netUp = FALSE
    /\ idleTick = FALSE
    /\ exhausted = FALSE
    /\ retries = 0
    /\ survivor = FALSE
    /\ rejected = FALSE
    /\ parsedRejected = FALSE

PureNext ==
    \/ CallParseSmhiData
    \/ CallGetProviderUrl
    \/ CallGetBeaufortForce
    \/ CallGetTextSea
    \/ CallGetWindIcon
    \/ CallGetDirectionIcon
    \/ CallGetWindDirection
    \/ CallGetWindData

\* Each function applied once to each of its arguments.
PureSpec == PureInit /\ [][PureNext]_vars

\* The function fn has been applied.
Applied(fn) == call.fn = fn /\ call.done

\* ------------------------------------------------------------------ claims

\* A step in which the module handles the notification at the head of toModule.
Handles(notification) ==
    /\ toModule # << >>
    /\ Head(toModule).notification = notification
    /\ toModule' = Tail(toModule)

\* C1: every firing of the periodic timer issues GET_WIND_DATA, whatever the
\* retry counter: the last firing never left the queue to the helper as it was.
C1_EveryTickRequests == ~idleTick

\* C2: recovery after exhausted retries: once the retry counter has reached
\* maxRetries with nothing left under way, and the providers answer every
\* later request well, the module eventually holds an observation.
C2_RecoversAfterExhaustion ==
    (netUp /\ loaded /\ retryCount >= config.maxRetries /\ Load = 0)
        ~> (windData.t # "null")

\* C3: in every reachable state the retry counter is at most maxRetries.
C3_RetryCountBounded == retryCount <= config.maxRetries

\* C4 as claimed: a retry timer is armed only while a failure is handled and
\* only if the counter is then below maxRetries, and once maxRetries failures
\* in a row have been handled none is armed until a periodic tick has fired.
C4_NoRetryUntilTick ==
    [][ /\ retryTimers' > retryTimers =>
             Handles("WIND_DATA_ERROR") /\ retryCount' < config.maxRetries
        /\ (exhausted \/ exhausted') => retryTimers' <= retryTimers ]_vars

\* C4 as amended: a retry timer is armed only while a failure is handled and
\* only if the counter is then below maxRetries; once maxRetries failures in
\* a row have been handled (the counter, which counts the failures since the
\* last success, is at maxRetries or above) none is armed by that or any
\* later failure until a success has been handled.
C4_NoRetryUntilSuccess ==
    [][ /\ retryTimers' > retryTimers =>
             /\ Handles("WIND_DATA_ERROR")
             /\ retryCount' < config.maxRetries
             /\ retryTimers' = retryTimers + 1
        /\ (retryCount >= config.maxRetries \/ retryCount' >= config.maxRetries)
             => retryTimers' <= retryTimers ]_vars

\* A failure handled at counter 0 has armed a retry timer, after the retries
\* had been exhausted and with no tick since.
C4_Witness ==
    /\ exhausted
    /\ windData.t = "null"
    /\ retryCount = 1
    /\ retryTimers > 0
    /\ config.maxRetries > 1

\* C5: handling WIND_DATA sets the retry counter to 0, whatever it was, and
\* stores the payload delivered.
C5_SuccessResets ==
    [][ Handles("WIND_DATA") =>
            /\ retryCount' = 0
            /\ windData' = Head(toModule).payload ]_vars

\* A WIND_DATA has been handled at a counter above 0: the counter had
\* reached maxRetries, no tick has fired since, and now it is 0 and an
\* observation is stored.
C5_Witness ==
    /\ config.maxRetries > 0
    /\ exhausted
    /\ retryCount = 0
    /\ windData.t # "null"

\* C6: start() issues an acquisition request at once, for every maxRetries.
C6_StartRequests ==
    [][ (pc = "init" /\ pc' = "running") => Len(toHelper') = 1 ]_vars

\* A step in which request i runs a handler that sends a notification.
Sends(i) == req'[i] # req[i] /\ Len(toModule') = Len(toModule) + 1

\* C7: no request of the helper sends more than one notification: one that
\* has sent a notification sends no other.
C7_AtMostOneSignal ==
    [][ \A i \in Slots : req[i].sent >= 1 => ~Sends(i) ]_vars

\* A request the helper has issued and that has sent nothing yet.
Unanswered(i) == req[i].st \in Open /\ req[i].sent = 0

FullyNumeric(observation) ==
    /\ IsNumber(Prop(observation, "windSpeed"))
    /\ IsNumber(Prop(observation, "windDirection"))

\* C9: every observation delivered (the payload of a WIND_DATA, and so every
\* windData other than null) has a numeric windSpeed and windDirection.
C9_ObservationNumeric ==
    /\ \A k \in 1..Len(toModule) :
          toModule[k].notification = "WIND_DATA" => FullyNumeric(toModule[k].payload)
    /\ windData.t # "null" => FullyNumeric(windData)

\* C10: right after a failure is handled the observation is null and the
\* error view is rendered, whatever had been stored before.
C10_FailureClears ==
    [][ Handles("WIND_DATA_ERROR") =>
            /\ windData' = Null
            /\ getDom' = "ERROR" ]_vars

\* A failure has been handled after an earlier success.
C10_Witness ==
    /\ lastUpdateTime.t # "null"
    /\ windData.t = "null"
    /\ retryCount > 0

\* C11: a response with a status other than 200 ends its request with the
\* failure signal at once, and JSON.parse (and so the provider's parser) never
\* runs on the body of such a response.
C11_Non200FailsUnparsed ==
    /\ [](~parsedRejected)
    /\ [][ \A i \in Slots :
              (req'[i] # req[i] /\ rejected') =>
                  /\ toModule' = Append(toModule, WindDataError)
                  /\ req'[i].st = "free" ]_vars

\* The helper has just handled a response with a status other than 200: its
\* failure signal is the newest notification.
C11_Witness ==
    /\ rejected
    /\ ~parsedRejected
    /\ toModule # << >>
    /\ toModule[Len(toModule)] = WindDataError

\* The instantaneous detail block of a YR document's first time-series entry.
YrDetails(data) ==
    Prop(Prop(Prop(First(Prop(Prop(data, "properties"), "timeseries")),
                   "data"), "instant"), "details")

\* The first value of the parameter called name in an SMHI document's first
\* time-series entry, undefined when there is none.
SmhiValue(data, name) ==
    LET parameters == Prop(First(Prop(data, "timeSeries")), "parameters")
    IN  IF parameters.t # "array" THEN Undefined
        ELSE First(Prop(FindParameter(parameters, name), "values"))

\* The schema of the provider's documents: both wind fields are there and
\* are numbers.
MatchesSchema(data, provider) ==
    IF provider = "yr"
    THEN /\ IsNumber(Prop(YrDetails(data), "wind_speed"))
         /\ IsNumber(Prop(YrDetails(data), "wind_from_direction"))
    ELSE /\ IsNumber(SmhiValue(data, "ws"))
         /\ IsNumber(SmhiValue(data, "wd"))

\* The bodies that are JSON and match the provider's schema.
WellFormedBodies ==
    [provider \in Providers |->
        {b \in Bodies(provider) :
            /\ JSONParse(b).ok
            /\ MatchesSchema(JSONParse(b).value, provider)}]

\* C12: every failure (timeout, transport failure, status other than 200,
\* body that is not JSON, document that does not match the schema) sends
\* WIND_DATA_ERROR without payload: WIND_DATA is sent only at the end of a
\* well-formed body.
C12_FailuresSendError ==
    [][ \A i \in Slots :
          Sends(i) =>
              LET n == toModule'[Len(toModule')]
              IN  /\ n.notification = "WIND_DATA" =>
                        /\ req[i].st = "receiving"
                        /\ req[i].rawData \in WellFormedBodies[req[i].provider]
                  /\ n.notification = "WIND_DATA_ERROR" => n.payload = Undefined ]_vars

\* The defects of an SMHI document that the claim lists.
SmhiDefective(data) ==
    LET timeSeries == Prop(data, "timeSeries")
        parameters == Prop(First(timeSeries), "parameters")
        Named(name) == {k \in 1..Len(parameters.e) :
                            Prop(parameters.e[k], "name") = Str(name)}
    IN  \/ timeSeries.t = "array" /\ Len(timeSeries.e) = 0
        \/ parameters = Undefined
        \/ parameters.t = "array" /\ (Named("ws") = {} \/ Named("wd") = {})
        \/ ~IsNumber(SmhiValue(data, "ws"))
        \/ ~IsNumber(SmhiValue(data, "wd"))

\* C13: parseSmhiData fails when the time series is empty, the parameters of
\* its first entry are absent, the parameter "ws" or "wd" is missing, or the
\* first value of either is not a number.
C13_SmhiParsingFails ==
    (Applied("parseSmhiData") /\ SmhiDefective(call.arg)) => ~call.result.ok

\* parseSmhiData has failed on a document that has "ws", with a number, and
\* no "wd".
C13_Witness ==
    /\ Applied("parseSmhiData")
    /\ IsNumber(SmhiValue(call.arg, "ws"))
    /\ SmhiValue(call.arg, "wd") = Undefined
    /\ Prop(First(Prop(call.arg, "timeSeries")), "parameters").t = "array"
    /\ ~call.result.ok

\* C14: for a well-formed SMHI document parseSmhiData returns an object of
\* exactly the two fields windSpeed and windDirection, each the first value,
\* as it is, of a parameter of the first time-series entry that is called
\* "ws" and "wd" respectively, wherever that parameter stands.
C14_SmhiParsingExact ==
    (Applied("parseSmhiData") /\ MatchesSchema(call.arg, "smhi")) =>
        LET parameters == Prop(First(Prop(call.arg, "timeSeries")), "parameters").e
            FirstValueOf(name) ==
                {First(Prop(parameters[k], "values")) :
                    k \in {j \in 1..Len(parameters) :
                              Prop(parameters[j], "name") = Str(name)}}
        IN  /\ call.result.ok
            /\ call.result.value.t = "object"
            /\ DOMAIN call.result.value.f = {"windSpeed", "windDirection"}
            /\ call.result.value.f.windSpeed \in FirstValueOf("ws")
            /\ call.result.value.f.windDirection \in FirstValueOf("wd")

\* parseSmhiData has returned 7.5 m/s and 180 for a document whose
\* parameters are "t", "wd" and "ws", in this order.
C14_Witness ==
    /\ Applied("parseSmhiData")
    /\ call.arg = SmhiDocument(<< SmhiParameter("t", << Num(75) >>),
                                  SmhiParameter("wd", << Num(180), Num(190) >>),
                                  SmhiParameter("ws", << Num(75) >>) >>)
    /\ call.result = Return(Obj([windSpeed |-> Num(75), windDirection |-> Num(180)]))

\* The text is one or more decimal digits.
IsDigits(text) ==
    /\ text # ""
    /\ \A i \in 1..Len(text) :
          \E d \in 1..10 : SubSeq(text, i, i) = SubSeq("0123456789", d, d)

\* The natural number that decimal digits denote.
RECURSIVE DigitsValue(_)
DigitsValue(text) ==
    IF text = "" THEN 0
    ELSE 10 * DigitsValue(SubSeq(text, 1, Len(text) - 1))
            + (CHOOSE d \in 0..9 :
                 SubSeq(text, Len(text), Len(text)) = SubSeq("0123456789", d + 1, d + 1))

\* The text is a decimal with exactly six digits after the point that
\* denotes the coordinate to the nearest 10^-6: an optional "-", digits, ".",
\* six digits.
SixDecimalsOf(text, coord) ==
    LET negative == text # "" /\ SubSeq(text, 1, 1) = "-"
        unsigned == IF negative THEN SubSeq(text, 2, Len(text)) ELSE text
        point == Len(unsigned) - 6
        whole == SubSeq(unsigned, 1, point - 1)
        fraction == SubSeq(unsigned, point + 1, Len(unsigned))
        millionths == DigitsValue(whole) * 1000000 + DigitsValue(fraction)
        magnitude == IF coord.v < 0 THEN 0 - coord.v ELSE coord.v
    IN  /\ point >= 2
        /\ SubSeq(unsigned, point, point) = "."
        /\ IsDigits(whole)
        /\ IsDigits(fraction) /\ Len(fraction) = 6
        /\ negative <=> coord.v < 0
        /\ 10 * millionths - magnitude \in -5..5

\* C15: the SMHI URL of a valid location holds the longitude and then the
\* latitude, each as a decimal with exactly 6 digits after the point.
C15_SmhiUrlSixDecimals ==
    (Applied("getProviderUrl") /\ call.arg.provider = "smhi") =>
        LET url == call.result
            head == "https://opendata-download-metfcst.smhi.se/api/category/pmp3g/version/2/geotype/point/lon/"
            tail == "/data.json"
            cuts == {k \in 1..(Len(url) - 4) : SubSeq(url, k, k + 4) = "/lat/"}
        IN  /\ Len(url) >= Len(head) + Len(tail)
            /\ SubSeq(url, 1, Len(head)) = head
            /\ SubSeq(url, Len(url) - Len(tail) + 1, Len(url)) = tail
            /\ Cardinality(cuts) = 1
            /\ \A k \in cuts :
                  /\ SixDecimalsOf(SubSeq(url, Len(head) + 1, k - 1), call.arg.lon)
                  /\ SixDecimalsOf(SubSeq(url, k + 5, Len(url) - Len(tail)),
                                   call.arg.lat)

\* The URL for longitude 11 and latitude -0.0000005.
C15_Witness ==
    /\ Applied("getProviderUrl")
    /\ call.arg.provider = "smhi"
    /\ call.arg.lon = Num(110000000)
    /\ call.arg.lat = Num(-5)
    /\ call.result =
          "https://opendata-download-metfcst.smhi.se/api/category/pmp3g/version/2/geotype/point/lon/11.000000/lat/-0.000001/data.json"

\* The ceilings of the Beaufort forces 0..11, in tenths of a m/s.
Ceilings == << 2, 15, 33, 54, 79, 107, 138, 171, 207, 244, 284, 326 >>

\* The force of the first bucket whose ceiling the speed does not exceed:
\* the number of ceilings it exceeds.
ForceOf(v) == Cardinality({i \in 1..Len(Ceilings) : v > Ceilings[i]})

\* C16: for a speed >= 0 getBeaufortForce returns the force of the first
\* bucket whose ceiling the speed does not exceed, 12 above 32.6; 0.2 gives 0,
\* 0.3 gives 1, 32.6 gives 11, 32.7 gives 12; no lower speed has a higher
\* force.
C16_BeaufortBuckets ==
    Applied("getBeaufortForce") =>
        /\ call.result = Return(Num(ForceOf(call.arg.v)))
        /\ call.arg.v = 2 => call.result.value = Num(0)
        /\ call.arg.v = 3 => call.result.value = Num(1)
        /\ call.arg.v = 326 => call.result.value = Num(11)
        /\ call.arg.v = 327 => call.result.value = Num(12)
        /\ \A w \in 0..call.arg.v :
              getBeaufortForce(Num(w)).value.v <= call.result.value.v

\* getBeaufortForce has returned 11 for 32.6 m/s.
C16_Witness ==
    /\ Applied("getBeaufortForce")
    /\ call.arg = Num(326)
    /\ call.result = Return(Num(11))

\* C17: getBeaufortForce returns a force in 0..12 for the windSpeed of every
\* observation the module holds, so that getDom can render it in 'beaufort'
\* mode.
C17_BeaufortTotal ==
    windData.t # "null" =>
        /\ getBeaufortForce(Prop(windData, "windSpeed")).ok
        /\ getBeaufortForce(Prop(windData, "windSpeed")).value.v \in 0..12

\* The floors of the descriptive terms, in tenths of a m/s, from the top.
TermFloors ==
    << [min |-> 327, term |-> "HURRICANE"], [min |-> 245, term |-> "STORM"],
       [min |-> 139, term |-> "GALE"], [min |-> 3, term |-> "BREEZE"],
       [min |-> 0, term |-> "CALM"] >>

\* C18: getTextSea gives every speed the one term whose floor is the highest
\* that the speed reaches: Hurricane from 32.7, Storm from 24.5, Gale from
\* 13.9, Breeze from 0.3, else Calm; 32.7 is Hurricane, 13.9 Gale, 0.0 Calm.
C18_DescriptiveTerms ==
    Applied("getTextSea") =>
        /\ \E i \in 1..Len(TermFloors) :
              /\ call.result = translate(TermFloors[i].term)
              /\ call.arg.v >= TermFloors[i].min
              /\ \A j \in 1..(i - 1) : call.arg.v < TermFloors[j].min
        /\ call.arg.v = 327 => call.result = translate("HURRICANE")
        /\ call.arg.v = 139 => call.result = translate("GALE")
        /\ call.arg.v = 0 => call.result = translate("CALM")

\* getTextSea has returned the term for a gale for 13.9 m/s.
C18_Witness ==
    /\ Applied("getTextSea")
    /\ call.arg = Num(139)
    /\ call.result = translate("GALE")

\* C19: direction 0 is unavailable, "N/A" and 'wi-na', in compass and in
\* degrees mode; direction 360 is not: in compass mode its label is "N" and
\* its icon is the one of the north octant.
C19_ZeroUnavailable ==
    /\ Applied("getWindDirection") =>
          /\ call.arg.degrees = Num(0) => call.result = Text("N/A")
          /\ (call.arg.degrees = Num(3600) /\ call.arg.config.directionType = "compass")
                => call.result = translate("N")
    /\ Applied("getDirectionIcon") =>
          /\ call.arg = Num(0) => call.result = "wi-na"
          /\ call.arg = Num(3600) => call.result = "wi-direction-down"

\* getWindDirection has returned "N/A" for direction 0 in degrees mode.
C19_Witness ==
    /\ Applied("getWindDirection")
    /\ call.arg.degrees = Num(0)
    /\ call.arg.config.directionType = "degrees"
    /\ call.result = Text("N/A")

\* The ceilings of the standard wind icons, in tenths of a m/s.
IconCeilings ==
    << [max |-> 2, icon |-> "wi-cloud"], [max |-> 33, icon |-> "wi-windy"],
       [max |-> 138, icon |-> "wi-strong-wind"],
       [max |-> 244, icon |-> "wi-gale-warning"],
       [max |-> 326, icon |-> "wi-storm-warning"] >>

\* C20: when displayType is not 'beaufort' the icon is the one of the first
\* ceiling the speed does not exceed (0.2 cloud, 3.3 windy, 13.8 strong wind,
\* 24.4 gale warning, 32.6 storm warning), the hurricane warning above all;
\* when it is 'beaufort' the icon is the one numbered with the Beaufort
\* force of the speed.
C20_WindIcon ==
    Applied("getWindIcon") =>
        LET v == call.arg.speed.v
            below == {i \in 1..Len(IconCeilings) : v <= IconCeilings[i].max}
        IN  /\ call.result.ok
            /\ call.arg.config.displayType = "beaufort" =>
                  call.result.value = "wi-wind-beaufort-" \o Digits(ForceOf(v))
            /\ (call.arg.config.displayType # "beaufort" /\ below = {}) =>
                  call.result.value = "wi-hurricane-warning"
            /\ call.arg.config.displayType # "beaufort" =>
                  \A i \in below :
                      (\A j \in below : i <= j) =>
                          call.result.value = IconCeilings[i].icon

\* getWindIcon has returned the icon of force 4 for 7.5 m/s in 'beaufort'
\* mode.
C20_Witness ==
    /\ Applied("getWindIcon")
    /\ call.arg.config.displayType = "beaufort"
    /\ call.arg.speed = Num(75)
    /\ call.result = Return("wi-wind-beaufort-4")

\* C21: in a run from start() in which every acquisition fails and no
\* periodic tick fires, exactly maxRetries acquisitions requested by retry
\* timers follow the first one before retrying stops: once a failure has been
\* handled and no timer is pending and no request or notification is under
\* way, the retry timers have issued maxRetries requests.
C21_RetriesFollow ==
    (retries >= 0 /\ loaded /\ Load = 0) => retries = config.maxRetries

\* C22: last write wins: whenever a notification is delivered to the module,
\* whichever request it answers, the observation stored afterwards is its
\* payload if it is a WIND_DATA and null if it is a WIND_DATA_ERROR.
C22_LastWriteWins ==
    [][ (toModule # << >> /\ toModule' = Tail(toModule)) =>
            windData' = IF Head(toModule).notification = "WIND_DATA"
                        THEN Head(toModule).payload
                        ELSE Null ]_vars

\* A success has been handled and stored while another request is open and
\* a failure is on its way to the module.
C22_Witness ==
    /\ windData.t # "null"
    /\ OpenSlots # {}
    /\ toModule # << >>
    /\ Head(toModule).notification = "WIND_DATA_ERROR"

C24_IntervalArmedOnce ==
    [][ /\ intervals' # intervals =>
              pc = "init" /\ pc' = "running" /\ intervals = 0 /\ intervals' = 1
        /\ pc' = "running" => intervals' = 1 ]_vars

\* One interval timer is armed after a success has been handled while a
\* retry timer was pending, and a failure after it has armed another.
C24_Witness ==
    /\ intervals = 1
    /\ survivor
    /\ lastUpdateTime # Null
    /\ retryCount > 0
    /\ retryTimers > 1

\* C25: an armed retry timer is never cancelled: handling a success leaves
\* the pending timers as they are, and a timer that was pending when a
\* success was handled, the next one to fire, issues an acquisition request
\* when it fires.
C25_SurvivorRequests ==
    [][ /\ Handles("WIND_DATA") => retryTimers' = retryTimers
        /\ (survivor /\ retryTimers' < retryTimers) =>
              toHelper' = Append(toHelper, Request(config)) ]_vars

\* The address begins with the text.
BeginsWith(url, text) ==
    Len(url) >= Len(text) /\ SubSeq(url, 1, Len(text)) = text

\* The documents of the two providers, well formed and not.
Documents == {JSONParse(b).value : b \in YrBodies \cup SmhiBodies}

OctantIcons ==
    << [dir |-> "N", icon |-> "wi-direction-down"],
       [dir |-> "NE", icon |-> "wi-direction-down-left"],
       [dir |-> "E", icon |-> "wi-direction-left"],
       [dir |-> "SE", icon |-> "wi-direction-up-left"],
       [dir |-> "S", icon |-> "wi-direction-up"],
       [dir |-> "SW", icon |-> "wi-direction-up-right"],
       [dir |-> "W", icon |-> "wi-direction-right"],
       [dir |-> "NW", icon |-> "wi-direction-down-right"] >>

\* C27: for every direction other than 0, the boundaries of the octants
\* included, the arrow of getDirectionIcon and the compass label of
\* getWindDirection are those of one octant.
C27_LabelMatchesIcon ==
    (Applied("getDirectionIcon") /\ call.arg # Num(0)) =>
        \E i \in 1..Len(OctantIcons) :
            /\ call.result = OctantIcons[i].icon
            /\ getWindDirection([directionType |-> "compass"], call.arg)
                   = translate(OctantIcons[i].dir)

\* C28: the module is loading exactly until the first notification is
\* handled: loaded is false at first, handling a WIND_DATA or a
\* WIND_DATA_ERROR makes it true and nothing else changes it, it never
\* returns to false, and while it is false the observation is null, the
\* retry counter is 0 and the loading view is rendered.
C28_LoadingUntilFirst ==
    /\ ~loaded /\ windData = Null /\ retryCount = 0
    /\ [][ /\ loaded => loaded'
           /\ (Handles("WIND_DATA") \/ Handles("WIND_DATA_ERROR")) => loaded'
           /\ (~loaded /\ loaded') =>
                 (Handles("WIND_DATA") \/ Handles("WIND_DATA_ERROR"))
           /\ ~loaded' =>
                 (windData' = Null /\ retryCount' = 0 /\ getDom' = "LOADING") ]_vars

\* The first notification handled was a failure: the module is loaded, with
\* no observation and none ever stored.
C28_Witness ==
    /\ loaded
    /\ windData = Null
    /\ lastUpdateTime = Null
    /\ retryCount = 1
    /\ getDom = "ERROR"

\* The rules of MMM-Multi-Wind.css that colour the wind icons: the classes
\* each selects and the colour it sets.
IconColours ==
    << [classes |-> {"wi-cloud"}, color |-> "#B0BEC5"],
       [classes |-> {"wi-windy"}, color |-> "#4FC3F7"],
       [classes |-> {"wi-strong-wind"}, color |-> "#2196F3"],
       [classes |-> {"wi-gale-warning"}, color |-> "#1976D2"],
       [classes |-> {"wi-storm-warning"}, color |-> "#0D47A1"],
       [classes |-> {"wi-hurricane-warning"}, color |-> "#1A237E"],
       [classes |-> {"wi-wind-beaufort-0"}, color |-> "#B0BEC5"],
       [classes |-> {"wi-wind-beaufort-1", "wi-wind-beaufort-2", "wi-wind-beaufort-3"},
        color |-> "#4FC3F7"],
       [classes |-> {"wi-wind-beaufort-4", "wi-wind-beaufort-5", "wi-wind-beaufort-6"},
        color |-> "#2196F3"],
       [classes |-> {"wi-wind-beaufort-7", "wi-wind-beaufort-8", "wi-wind-beaufort-9"},
        color |-> "#1976D2"],
       [classes |-> {"wi-wind-beaufort-10", "wi-wind-beaufort-11"}, color |-> "#0D47A1"],
       [classes |-> {"wi-wind-beaufort-12"}, color |-> "#1A237E"] >>

\* The colour the stylesheet gives an icon: that of the last rule that
\* selects its class, none if no rule does.
ColourOf(icon) ==
    LET rules == {i \in 1..Len(IconColours) : icon \in IconColours[i].classes}
    IN  IF rules = {} THEN "none"
        ELSE IconColours[CHOOSE i \in rules : \A j \in rules : j <= i].color

\* C29: for every wind speed the Beaufort icon shown in 'beaufort' mode has
\* the colour of the standard icon that getWindIcon selects for that speed
\* in the other modes.
C29_BeaufortColourMatches ==
    (Applied("getWindIcon") /\ call.arg.config.displayType = "beaufort") =>
        LET standard == getWindIcon([displayType |-> "ms"], call.arg.speed)
        IN  /\ call.result.ok
            /\ standard.ok
            /\ ColourOf(call.result.value) # "none"
            /\ ColourOf(call.result.value) = ColourOf(standard.value)

TypeOK ==
    /\ retries \in (0 - 1)..MaxRetriesBound
    /\ survivor \in BOOLEAN
    /\ pc \in {"init", "running"}
    /\ loaded \in BOOLEAN
    /\ retryCount \in Nat
    /\ retryTimers \in 0..MaxLoad
    /\ Len(toHelper) <= MaxLoad
    /\ Len(toModule) <= MaxLoad
    /\ Load <= MaxLoad
    /\ rejected \in BOOLEAN
    /\ parsedRejected \in BOOLEAN

====
